---------------------------- MODULE Spec2Model ----------------------------
(***************************************************************************)
(* The CSV cleaning-and-aggregation pipeline of server.js: the header      *)
(* validator, the field normalizers (parseNumber, parseBoolean,            *)
(* parseDateISO), cleanRow, the row filter, computeAnalytics and the       *)
(* /api/upload handler.                                                    *)
(*                                                                         *)
(* Text is a sequence of one-character strings (the characters "pound"     *)
(* and "euro" stand for the two non-ASCII currency signs).  A JavaScript   *)
(* value is a tagged record: Null, Undefined, Num(n), Bool(b), Str(s).     *)
(* A number is an integer count of 1/Scale units: a decimal literal is     *)
(* held exactly, and compares as its binary64 value does.  Sums and means  *)
(* are exact; the rounding of binary64 sums is not modelled, and the rows  *)
(* given to the aggregator carry values that binary64 adds exactly.        *)
(*                                                                         *)
(* Each function is applied by one action to an argument drawn by the      *)
(* initial predicate: arg is the argument (for the handler, the uploaded   *)
(* file), ret the value returned (for the handler, the response), pc says  *)
(* whether the call is still to be made.  tzOffset and legacyDate are the  *)
(* environment of Date.parse: the local zone and the engine's answer for   *)
(* text outside the standard date format.                                  *)
(***************************************************************************)
EXTENDS Integers, Sequences, FiniteSets, TLC

VARIABLES arg, ret, pc, tzOffset, legacyDate

vars == <<arg, ret, pc, tzOffset, legacyDate>>

(* ------------------------------ bounds --------------------------------- *)

\* longest raw numeric text enumerated exhaustively
MaxLen == 4

\* longest raw boolean text enumerated exhaustively
MaxBoolLen == 3

\* longest free-form date text enumerated exhaustively
MaxDateLen == 2

\* longest raw rating text of an uploaded file
MaxRatingLen == 3

\* most rows given to computeAnalytics
MaxAggRows == 3

\* most free rows around the distinct products of the ranking
MaxTopFree == 2

\* most data lines of an uploaded file
MaxRows == 2

(* --------------------------- JavaScript values ------------------------- *)

Null == [t |-> "null"]

Undefined == [t |-> "undefined"]

Num(n) == [t |-> "num", n |-> n]

Bool(b) == [t |-> "bool", b |-> b]

Str(s) == [t |-> "str", s |-> s]

IsNum(v) == v.t = "num"

\* v === null || v === undefined
IsNullish(v) == v.t \in {"null", "undefined"}

\* the text of String(v) for a string value
StringOf(v) == v.s

(* ------------------------------- text ---------------------------------- *)

Digits == {"0", "1", "2", "3", "4", "5", "6", "7", "8", "9"}

DigitVal(c) ==
  CASE c = "0" -> 0 [] c = "1" -> 1 [] c = "2" -> 2 [] c = "3" -> 3
    [] c = "4" -> 4 [] c = "5" -> 5 [] c = "6" -> 6 [] c = "7" -> 7
    [] c = "8" -> 8 [] c = "9" -> 9

IsSpace(c) == c = " "

RECURSIVE TrimStart(_)
TrimStart(s) ==
  IF s # <<>> /\ IsSpace(Head(s)) THEN TrimStart(Tail(s)) ELSE s

RECURSIVE TrimEnd(_)
TrimEnd(s) ==
  IF s # <<>> /\ IsSpace(s[Len(s)])
  THEN TrimEnd(SubSeq(s, 1, Len(s) - 1))
  ELSE s

\* String.prototype.trim
Trim(s) == TrimEnd(TrimStart(s))

UpperToLower ==
  [c \in {"A", "B", "C", "D", "E", "F", "G", "I", "K", "L", "M", "N", "O", "P",
          "R", "S", "T", "U", "V", "W", "Y"} |->
     CASE c = "A" -> "a" [] c = "B" -> "b" [] c = "C" -> "c" [] c = "D" -> "d"
       [] c = "E" -> "e"
       [] c = "F" -> "f" [] c = "G" -> "g" [] c = "I" -> "i" [] c = "K" -> "k"
       [] c = "L" -> "l"
       [] c = "M" -> "m" [] c = "N" -> "n" [] c = "O" -> "o" [] c = "P" -> "p"
       [] c = "R" -> "r" [] c = "S" -> "s" [] c = "T" -> "t" [] c = "U" -> "u"
       [] c = "V" -> "v" [] c = "W" -> "w" [] c = "Y" -> "y"]

\* String.prototype.toLowerCase
ToLowerCase(s) ==
  [i \in 1..Len(s) |->
     IF s[i] \in DOMAIN UpperToLower THEN UpperToLower[s[i]] ELSE s[i]]

\* every text of length at most n over the alphabet A
RECURSIVE TextsUpTo(_, _)
TextsUpTo(A, n) ==
  IF n = 0 THEN {<<>>}
  ELSE LET shorter == TextsUpTo(A, n - 1)
       IN  shorter \cup {Append(s, c) : s \in shorter, c \in A}

(* ------------------------------ numbers -------------------------------- *)

RECURSIVE Pow10(_)
Pow10(k) == IF k = 0 THEN 1 ELSE 10 * Pow10(k - 1)

\* a number n is held as the integer n * Scale; a decimal literal of at most
\* MaxLen characters has at most MaxLen - 1 fractional digits
Scale == Pow10(MaxLen - 1)

AllDigits(s) == \A i \in 1..Len(s) : s[i] \in Digits

RECURSIVE DigitsValue(_)
DigitsValue(s) ==
  IF s = <<>> THEN 0
  ELSE 10 * DigitsValue(SubSeq(s, 1, Len(s) - 1)) + DigitVal(s[Len(s)])

\* position of the first "." of s, or 0
RECURSIVE DotAt(_, _)
DotAt(s, i) ==
  IF i > Len(s) THEN 0 ELSE IF s[i] = "." THEN i ELSE DotAt(s, i + 1)

NaN == [t |-> "nan"]

\* StrUnsignedDecimalLiteral: digits, digits "." digits?, "." digits
UnsignedDecimal(s) ==
  LET d == DotAt(s, 1)
      ip == IF d = 0 THEN s ELSE SubSeq(s, 1, d - 1)
      fp == IF d = 0 THEN <<>> ELSE SubSeq(s, d + 1, Len(s))
  IN  IF Len(ip) + Len(fp) = 0 \/ ~AllDigits(ip) \/ ~AllDigits(fp)
      THEN NaN
      ELSE Num(DigitsValue(ip) * Scale
               + DigitsValue(fp) * (Scale \div Pow10(Len(fp))))

\* Number(text): StringToNumber on the decimal grammar; the empty or
\* all-whitespace text converts to 0, anything outside the grammar to NaN.
\* (Exponents, 0x/0o/0b literals and Infinity need characters that the
\* texts given to it here do not contain.)
ToNumber(s) ==
  LET w == Trim(s)
  IN  IF w = <<>> THEN Num(0)
      ELSE IF Head(w) \in {"-", "+"}
      THEN LET u == UnsignedDecimal(Tail(w))
           IN  IF IsNum(u) /\ Head(w) = "-" THEN Num(0 - u.n) ELSE u
      ELSE UnsignedDecimal(w)

\* Number.isFinite
IsFinite(v) == IsNum(v)

CurrencyOrComma == {"$", "pound", "euro", ","}

\* s.replace(/[$£€,]/g, "")
StripCurrency(s) == SelectSeq(s, LAMBDA c : c \notin CurrencyOrComma)

parseNumber(v) ==
  IF IsNullish(v) THEN Null
  ELSE LET s == Trim(StringOf(v))
       IN  IF s = <<>> THEN Null
           ELSE LET n == ToNumber(StripCurrency(s))
                IN  IF IsFinite(n) THEN n ELSE Null

(* ------------------------------ booleans ------------------------------- *)

TrueTokens ==
  {<<"t", "r", "u", "e">>,
   <<"t">>,
   <<"y", "e", "s">>,
   <<"y">>,
   <<"1">>,
   <<"i", "n", " ", "s", "t", "o", "c", "k">>,
   <<"i", "n", "s", "t", "o", "c", "k">>}

FalseTokens ==
  {<<"f", "a", "l", "s", "e">>,
   <<"f">>,
   <<"n", "o">>,
   <<"n">>,
   <<"0">>,
   <<"o", "u", "t", " ", "o", "f", " ", "s", "t", "o", "c", "k">>,
   <<"o", "o", "s">>}

\* parseBoolean with the lower-casing left out
parseBooleanCaseSensitive(v) ==
  IF IsNullish(v) THEN Null
  ELSE LET s == Trim(StringOf(v))
       IN  IF s = <<>> THEN Null
           ELSE IF s \in TrueTokens THEN Bool(TRUE)
           ELSE IF s \in FalseTokens THEN Bool(FALSE)
           ELSE Null

parseBoolean(v) ==
  IF IsNullish(v) THEN Null
  ELSE LET s == ToLowerCase(Trim(StringOf(v)))
       IN  IF s = <<>> THEN Null
           ELSE IF s \in TrueTokens THEN Bool(TRUE)
           ELSE IF s \in FalseTokens THEN Bool(FALSE)
           ELSE Null

(* ------------------------------- dates --------------------------------- *)

\* a time value: whole days since 1970-01-01 (UTC) and the minute of that day
Time(day, min) == [t |-> "time", day |-> day, min |-> min]

MinutesPerDay == 24 * 60

\* MakeDay: the day number of a proleptic Gregorian calendar date
DaysFromCivil(y, m, d) ==
  LET yy == IF m <= 2 THEN y - 1 ELSE y
      era == yy \div 400
      yoe == yy - era * 400
      mp == (m + 9) % 12
      doy == (153 * mp + 2) \div 5 + d - 1
      doe == yoe * 365 + yoe \div 4 - yoe \div 100 + doy
  IN  era * 146097 + doe - 719468

\* YearFromTime, MonthFromTime, DateFromTime of a day number
CivilFromDays(z) ==
  LET zz == z + 719468
      era == zz \div 146097
      doe == zz - era * 146097
      yoe == (doe - doe \div 1460 + doe \div 36524 - doe \div 146096) \div 365
      doy == doe - (365 * yoe + yoe \div 4 - yoe \div 100)
      mp == (5 * doy + 2) \div 153
      d == doy - (153 * mp + 2) \div 5 + 1
      m == IF mp < 10 THEN mp + 3 ELSE mp - 9
      y == yoe + era * 400
  IN  [year |-> IF m <= 2 THEN y + 1 ELSE y, month |-> m, date |-> d]

IsLeap(y) == (y % 4 = 0 /\ y % 100 # 0) \/ y % 400 = 0

DaysInMonth(y, m) ==
  IF m = 2 THEN (IF IsLeap(y) THEN 29 ELSE 28)
  ELSE IF m \in {4, 6, 9, 11} THEN 30 ELSE 31

\* s matches \d{n} from position i
DigitsAt(s, i, n) ==
  /\ Len(s) >= i + n - 1
  /\ \A k \in i..(i + n - 1) : s[k] \in Digits

NumAt(s, i, n) == DigitsValue(SubSeq(s, i, i + n - 1))

\* s.match(/^(\d{4})-(\d{2})-(\d{2})$/)
IsoMatch(s) ==
  /\ Len(s) = 10
  /\ DigitsAt(s, 1, 4) /\ s[5] = "-"
  /\ DigitsAt(s, 6, 2) /\ s[8] = "-"
  /\ DigitsAt(s, 9, 2)

\* The Date Time String Format that every engine must accept:
\*   YYYY | +YYYYYY | -YYYYYY, then [-MM [-DD]], then [THH:mm [Z]].
\* A date-only form is UTC; a date-time form without Z is local time.
\* The result is NaN when s is not a valid instance of the format.
IsoDateTime(s, offset) ==
  LET expanded == s # <<>> /\ s[1] \in {"+", "-"}
      ylen == IF expanded THEN 7 ELSE 4
      yok == IF expanded
             THEN DigitsAt(s, 2, 6) /\ ~(s[1] = "-" /\ NumAt(s, 2, 6) = 0)
             ELSE DigitsAt(s, 1, 4)
      year == IF expanded
              THEN (IF s[1] = "-" THEN 0 - NumAt(s, 2, 6) ELSE NumAt(s, 2, 6))
              ELSE NumAt(s, 1, 4)
      r == SubSeq(s, ylen + 1, Len(s))
      hasMonth == Len(r) >= 3
      hasDay == Len(r) >= 6
      hasTime == Len(r) >= 12
      hasZ == Len(r) = 13
      shape ==
        /\ Len(r) \in {0, 3, 6, 12, 13}
        /\ hasMonth => (r[1] = "-" /\ DigitsAt(r, 2, 2))
        /\ hasDay => (r[4] = "-" /\ DigitsAt(r, 5, 2))
        /\ hasTime => (r[7] = "T" /\ DigitsAt(r, 8, 2) /\ r[10] = ":"
                        /\ DigitsAt(r, 11, 2))
        /\ hasZ => r[13] = "Z"
      month == IF hasMonth THEN NumAt(r, 2, 2) ELSE 1
      day == IF hasDay THEN NumAt(r, 5, 2) ELSE 1
      hh == IF hasTime THEN NumAt(r, 8, 2) ELSE 0
      mi == IF hasTime THEN NumAt(r, 11, 2) ELSE 0
      inRange ==
        /\ month \in 1..12
        /\ day \in 1..DaysInMonth(year, month)
        /\ hh \in 0..24 /\ mi \in 0..59 /\ (hh = 24 => mi = 0)
      utcMin == hh * 60 + mi - (IF hasTime /\ ~hasZ THEN offset ELSE 0)
  IN  IF yok /\ shape /\ inRange
      THEN Time(DaysFromCivil(year, month, day) + utcMin \div MinutesPerDay,
                utcMin % MinutesPerDay)
      ELSE NaN

\* Date.parse(s): the standard format, else whatever the engine's own
\* heuristics make of the text (legacy: NaN or some time value)
DateParse(s, offset, legacy) ==
  LET iso == IsoDateTime(s, offset)
  IN  IF iso # NaN THEN iso ELSE legacy

\* the local calendar fields of new Date(t)
LocalFields(t, offset) ==
  CivilFromDays(t.day + (t.min + offset) \div MinutesPerDay)

DigitChar(d) ==
  CASE d = 0 -> "0" [] d = 1 -> "1" [] d = 2 -> "2" [] d = 3 -> "3"
    [] d = 4 -> "4" [] d = 5 -> "5" [] d = 6 -> "6" [] d = 7 -> "7"
    [] d = 8 -> "8" [] d = 9 -> "9"

RECURSIVE NatToText(_)
NatToText(n) ==
  IF n < 10 THEN <<DigitChar(n)>>
  ELSE Append(NatToText(n \div 10), DigitChar(n % 10))

\* String(n), and `${n}`, of an integer
IntToText(n) == IF n < 0 THEN <<"-">> \o NatToText(0 - n) ELSE NatToText(n)

RECURSIVE PadStart(_, _, _)
PadStart(s, n, c) == IF Len(s) >= n THEN s ELSE PadStart(<<c>> \o s, n, c)

parseDateISO(v, offset, legacy) ==
  IF IsNullish(v) THEN Null
  ELSE LET s == Trim(StringOf(v))
       IN  IF s = <<>> THEN Null
           ELSE IF IsoMatch(s) THEN Str(s)
           ELSE LET t == DateParse(s, offset, legacy)
                IN  IF t = NaN THEN Null
                    ELSE LET d == LocalFields(t, offset)
                             yyyy == IntToText(d.year)
                             mm == PadStart(IntToText(d.month), 2, "0")
                             dd == PadStart(IntToText(d.date), 2, "0")
                         IN  Str(yyyy \o <<"-">> \o mm \o <<"-">> \o dd)

(* --------------------------- header validator ------------------------- *)

PRODUCT == <<"p", "r", "o", "d", "u", "c", "t">>

PRICE == <<"p", "r", "i", "c", "e">>

RATING == <<"r", "a", "t", "i", "n", "g">>

INSTOCK == <<"i", "n", "s", "t", "o", "c", "k">>

LAUNCH_DATE == <<"l", "a", "u", "n", "c", "h", "_", "d", "a", "t", "e">>

REVIEW == <<"r", "e", "v", "i", "e", "w">>

REQUIRED_COLUMNS == <<PRODUCT, PRICE, RATING, INSTOCK, LAUNCH_DATE>>

OPTIONAL_COLUMNS == <<REVIEW>>

\* Array.prototype.includes
Includes(seq, x) == \E i \in 1..Len(seq) : seq[i] = x

\* String(h || "").trim().toLowerCase()
normalizeHeader(h) == ToLowerCase(Trim(h))

validateColumns(headers) ==
  [missing |-> SelectSeq(REQUIRED_COLUMNS, LAMBDA c : ~Includes(headers, c)),
   unexpected |-> SelectSeq(headers, LAMBDA h : ~Includes(REQUIRED_COLUMNS, h)
                                                 /\ ~Includes(OPTIONAL_COLUMNS, h))]

(* ------------------------------ row cleaner ---------------------------- *)

\* row.k of a record: a function from column names to raw values
Get(row, k) == IF k \in DOMAIN row THEN row[k] ELSE Undefined

\* String(v ?? "").trim()
TrimOrEmpty(v) == IF IsNullish(v) THEN <<>> ELSE Trim(StringOf(v))

\* x || null for a string x
OrNull(s) == IF s = <<>> THEN Null ELSE Str(s)

\* the clamp with its lower bound left out
ClampRatingUpperOnly(r) ==
  IF r = Null THEN r
  ELSE IF r.n > 5 * Scale THEN Num(5 * Scale)
  ELSE r

\* the clamp of cleanRow: rating < 0 becomes 0, rating > 5 becomes 5
ClampRating(r) ==
  IF r = Null THEN r
  ELSE IF r.n < 0 THEN Num(0)
  ELSE IF r.n > 5 * Scale THEN Num(5 * Scale)
  ELSE r

cleanRow(row, offset, legacy) ==
  [product |-> OrNull(TrimOrEmpty(Get(row, PRODUCT))),
   price |-> parseNumber(Get(row, PRICE)),
   rating |-> ClampRating(parseNumber(Get(row, RATING))),
   instock |-> parseBoolean(Get(row, INSTOCK)),
   review |-> IF Get(row, REVIEW) # Undefined
              THEN Str(TrimOrEmpty(Get(row, REVIEW)))
              ELSE Null,
   launch_date |-> parseDateISO(Get(row, LAUNCH_DATE), offset, legacy)]

(* ------------------------------ aggregator ----------------------------- *)

UNKNOWN == <<"U", "n", "k", "n", "o", "w", "n">>

\* topProducts keeps the first TopN entries
TopN == 10

\* sampleCleanedRows keeps the first SampleN rows
SampleN == 8

\* a Map in insertion order: a sequence of [key, val] entries
MapHas(m, k) == \E i \in 1..Len(m) : m[i].key = k

MapGet(m, k) == (CHOOSE e \in {m[i] : i \in 1..Len(m)} : e.key = k).val

MapSet(m, k, v) ==
  IF MapHas(m, k)
  THEN [i \in 1..Len(m) |-> IF m[i].key = k THEN [key |-> k, val |-> v] ELSE m[i]]
  ELSE Append(m, [key |-> k, val |-> v])

\* arr.slice(0, n)
Slice(arr, n) == SubSeq(arr, 1, IF Len(arr) < n THEN Len(arr) ELSE n)

RECURSIVE GCD(_, _)
GCD(a, b) == IF b = 0 THEN a ELSE GCD(b, a % b)

\* a / b for b > 0: the quotient as a fraction in lowest terms (of 1/Scale)
Quotient(a, b) ==
  LET g == GCD(IF a < 0 THEN 0 - a ELSE a, b)
  IN  [t |-> "num", num |-> a \div g, den |-> b \div g]

EmptyAcc == [count |-> 0, priceSum |-> 0, priceN |-> 0, ratingSum |-> 0, ratingN |-> 0]

Accumulators0 ==
  [missing |-> [product |-> 0, price |-> 0, rating |-> 0, instock |-> 0,
                launch_date |-> 0],
   price |-> <<>>,
   rating |-> <<>>,
   productCounts |-> <<>>,
   instockCounts |-> [true |-> 0, false |-> 0, null |-> 0],
   monthAcc |-> <<>>]

\* a non-null, non-empty string is truthy
Truthy(v) == v.t = "str" /\ v.s # <<>>

\* one iteration of the loop over the rows
AccumulateRow(a, r) ==
  LET miss == [k \in DOMAIN a.missing |->
                 IF r[k] = Null THEN a.missing[k] + 1 ELSE a.missing[k]]
      p == IF r.product = Null THEN UNKNOWN ELSE r.product.s
      pc0 == IF MapHas(a.productCounts, p) THEN MapGet(a.productCounts, p) ELSE 0
      instKey == IF r.instock = Bool(TRUE) THEN "true"
                 ELSE IF r.instock = Bool(FALSE) THEN "false" ELSE "null"
      month == Slice(r.launch_date.s, 7)
      acc0 == IF MapHas(a.monthAcc, month) THEN MapGet(a.monthAcc, month) ELSE EmptyAcc
      acc1 == [count |-> acc0.count + 1,
               priceSum |-> IF r.price # Null THEN acc0.priceSum + r.price.n
                            ELSE acc0.priceSum,
               priceN |-> IF r.price # Null THEN acc0.priceN + 1 ELSE acc0.priceN,
               ratingSum |-> IF r.rating # Null THEN acc0.ratingSum + r.rating.n
                             ELSE acc0.ratingSum,
               ratingN |-> IF r.rating # Null THEN acc0.ratingN + 1 ELSE acc0.ratingN]
  IN  [missing |-> miss,
       price |-> IF r.price # Null THEN Append(a.price, r.price.n) ELSE a.price,
       rating |-> IF r.rating # Null THEN Append(a.rating, r.rating.n) ELSE a.rating,
       productCounts |-> MapSet(a.productCounts, p, pc0 + 1),
       instockCounts |-> [a.instockCounts EXCEPT ![instKey] = @ + 1],
       monthAcc |-> IF Truthy(r.launch_date)
                    THEN MapSet(a.monthAcc, month, acc1)
                    ELSE a.monthAcc]

RECURSIVE Accumulate(_)
Accumulate(rows) ==
  IF rows = <<>> THEN Accumulators0
  ELSE AccumulateRow(Accumulate(SubSeq(rows, 1, Len(rows) - 1)), rows[Len(rows)])

\* byMonth: each bucket finalized
FinalizeMonth(e) ==
  [month |-> e.key,
   count |-> e.val.count,
   avgPrice |-> IF e.val.priceN # 0 THEN Quotient(e.val.priceSum, e.val.priceN)
                ELSE Null,
   avgRating |-> IF e.val.ratingN # 0 THEN Quotient(e.val.ratingSum, e.val.ratingN)
                 ELSE Null]

RECURSIVE MinOf(_)
MinOf(arr) ==
  IF Len(arr) = 1 THEN arr[1]
  ELSE LET m == MinOf(SubSeq(arr, 1, Len(arr) - 1))
       IN  IF arr[Len(arr)] < m THEN arr[Len(arr)] ELSE m

RECURSIVE MaxOf(_)
MaxOf(arr) ==
  IF Len(arr) = 1 THEN arr[1]
  ELSE LET m == MaxOf(SubSeq(arr, 1, Len(arr) - 1))
       IN  IF arr[Len(arr)] > m THEN arr[Len(arr)] ELSE m

RECURSIVE SumOf(_)
SumOf(arr) == IF arr = <<>> THEN 0 ELSE SumOf(Tail(arr)) + Head(arr)

\* stats with the empty-array guard left out: the mean of nothing is 0 / 0
statsUnguarded(arr) ==
  [count |-> Len(arr),
   min |-> IF Len(arr) = 0 THEN Null ELSE Num(MinOf(arr)),
   max |-> IF Len(arr) = 0 THEN Null ELSE Num(MaxOf(arr)),
   mean |-> IF Len(arr) = 0 THEN NaN ELSE Quotient(SumOf(arr), Len(arr))]

stats(arr) ==
  IF Len(arr) = 0 THEN [count |-> 0, min |-> Null, max |-> Null, mean |-> Null]
  ELSE [count |-> Len(arr),
        min |-> Num(MinOf(arr)),
        max |-> Num(MaxOf(arr)),
        mean |-> Quotient(SumOf(arr), Len(arr))]

\* (a, b) => b[1] - a[1] is negative: a goes before b
CountBefore(a, b) == b.val - a.val < 0

\* the collation rank of a character of a date text
CharRank(c) == IF c \in Digits THEN 1 + DigitVal(c) ELSE 0

\* a.localeCompare(b) < 0 for texts of digits and "-"
RECURSIVE LocaleBefore(_, _)
LocaleBefore(a, b) ==
  IF b = <<>> THEN FALSE
  ELSE IF a = <<>> THEN TRUE
  ELSE IF CharRank(Head(a)) # CharRank(Head(b))
  THEN CharRank(Head(a)) < CharRank(Head(b))
  ELSE LocaleBefore(Tail(a), Tail(b))

\* Array.prototype.sort is stable: x goes before the first element it precedes
RECURSIVE InsertByCount(_, _)
InsertByCount(sorted, x) ==
  IF sorted = <<>> THEN <<x>>
  ELSE IF CountBefore(x, Head(sorted)) THEN <<x>> \o sorted
  ELSE <<Head(sorted)>> \o InsertByCount(Tail(sorted), x)

RECURSIVE SortByCount(_)
SortByCount(arr) ==
  IF arr = <<>> THEN <<>>
  ELSE InsertByCount(SortByCount(SubSeq(arr, 1, Len(arr) - 1)), arr[Len(arr)])

RECURSIVE InsertByMonth(_, _)
InsertByMonth(sorted, x) ==
  IF sorted = <<>> THEN <<x>>
  ELSE IF LocaleBefore(x.month, Head(sorted).month) THEN <<x>> \o sorted
  ELSE <<Head(sorted)>> \o InsertByMonth(Tail(sorted), x)

RECURSIVE SortByMonth(_)
SortByMonth(arr) ==
  IF arr = <<>> THEN <<>>
  ELSE InsertByMonth(SortByMonth(SubSeq(arr, 1, Len(arr) - 1)), arr[Len(arr)])

\* topProducts sliced before it is sorted
TopProductsSliceFirst(productCounts) ==
  LET top == SortByCount(Slice(productCounts, TopN))
  IN  [i \in 1..Len(top) |-> [product |-> top[i].key, count |-> top[i].val]]

TopProducts(productCounts) ==
  LET top == Slice(SortByCount(productCounts), TopN)
  IN  [i \in 1..Len(top) |-> [product |-> top[i].key, count |-> top[i].val]]

\* monthly left in insertion order
MonthlyUnsorted(monthAcc) ==
  [i \in 1..Len(monthAcc) |-> FinalizeMonth(monthAcc[i])]

Monthly(monthAcc) ==
  SortByMonth([i \in 1..Len(monthAcc) |-> FinalizeMonth(monthAcc[i])])

computeAnalytics(rows) ==
  LET a == Accumulate(rows)
  IN  [totalRows |-> Len(rows),
       missing |-> a.missing,
       stats |-> [price |-> stats(a.price), rating |-> stats(a.rating)],
       topProducts |-> TopProducts(a.productCounts),
       instockCounts |-> a.instockCounts,
       monthly |-> Monthly(a.monthAcc)]

(* ---------------------------- upload handler --------------------------- *)

\* the keys of an object built from the columns: each name once, in the
\* order of its first occurrence
RECURSIVE Dedup(_)
Dedup(seq) ==
  IF seq = <<>> THEN <<>>
  ELSE LET front == Dedup(SubSeq(seq, 1, Len(seq) - 1))
       IN  IF Includes(front, seq[Len(seq)]) THEN front
           ELSE Append(front, seq[Len(seq)])

\* name.endsWith(suffix)
EndsWith(name, suffix) ==
  /\ Len(name) >= Len(suffix)
  /\ SubSeq(name, Len(name) - Len(suffix) + 1, Len(name)) = suffix

DOT_CSV == <<".", "c", "s", "v">>

\* parse(csvText, {columns: headers => headers.map(normalizeHeader),
\*                 skip_empty_lines: true, trim: true})
\* on a file already split into cells: a data line whose cell count differs
\* from the header's makes the parser throw; otherwise each line becomes an
\* object keyed by the normalized header names (a repeated name keeps its
\* first position and its last value), the cells trimmed.
ParseCsv(file) ==
  LET columns == [i \in 1..Len(file.header) |-> normalizeHeader(Trim(file.header[i]))]
      Last(k) == CHOOSE i \in 1..Len(columns) :
                   columns[i] = k /\ \A j \in (i + 1)..Len(columns) : columns[j] # k
      Record(line) ==
        [k \in {columns[i] : i \in 1..Len(columns)} |-> Str(Trim(line[Last(k)]))]
  IN  IF \E n \in 1..Len(file.lines) : Len(file.lines[n]) # Len(columns)
      THEN [threw |-> TRUE]
      ELSE [threw |-> FALSE,
            keys |-> Dedup(columns),
            records |-> [n \in 1..Len(file.lines) |-> Record(file.lines[n])]]

\* the filter taking review for a tracked field
KeepRowWithReview(r) ==
  \E v \in {r.product, r.price, r.rating, r.instock, r.launch_date, r.review} :
    v # Null /\ v # Str(<<>>)

\* the filter of the handler: some tracked field is not null
KeepRow(r) ==
  \E v \in {r.product, r.price, r.rating, r.instock, r.launch_date} : v # Null

\* app.post("/api/upload"): the response to one request
Upload(file, offset, legacy) ==
  IF file = Undefined
  THEN [status |-> 400, error |-> "No file uploaded. Use field name 'file'."]
  ELSE IF ~EndsWith(ToLowerCase(file.originalname), DOT_CSV)
  THEN [status |-> 400, error |-> "Please upload a .csv file."]
  ELSE LET parsed == ParseCsv(file)
       IN  IF parsed.threw
           THEN [status |-> 500, error |-> "Server failed to process CSV."]
           ELSE LET records == parsed.records
                    headers == IF Len(records) # 0 THEN parsed.keys ELSE <<>>
                    v == validateColumns(headers)
                    cleanedRows == [n \in 1..Len(records) |->
                                      cleanRow(records[n], offset, legacy)]
                    finalRows == SelectSeq(cleanedRows, KeepRow)
                IN  IF Len(v.missing) # 0
                    THEN [status |-> 422,
                          error |-> "CSV structure invalid: missing required columns.",
                          details |-> [missing |-> v.missing,
                                       required |-> REQUIRED_COLUMNS,
                                       found |-> headers]]
                    ELSE [status |-> 200,
                          ok |-> TRUE,
                          warnings |-> IF Len(v.unexpected) # 0
                                       THEN [unexpectedColumns |-> v.unexpected]
                                       ELSE Null,
                          analytics |-> computeAnalytics(finalRows),
                          sampleCleanedRows |-> Slice(finalRows, SampleN)]

(* --------------------------- specifications ---------------------------- *)

NumAlphabet == {"0", "1", "7", "-", ".", "$", "pound", "euro", ",", " ", "a"}

NumTexts == TextsUpTo(NumAlphabet, MaxLen)

InitNumber ==
  /\ arg \in {Str(s) : s \in NumTexts} \cup {Null, Undefined}
  /\ ret = Undefined
  /\ pc = "call"
  /\ tzOffset = 0
  /\ legacyDate = NaN

ParseNumberCall ==
  /\ pc = "call"
  /\ ret' = parseNumber(arg)
  /\ pc' = "done"
  /\ UNCHANGED <<arg, tzOffset, legacyDate>>

SpecNumber == InitNumber /\ [][ParseNumberCall]_vars


\* raw instock cells: every short text, and the longer words as they are
\* written in files, each with and without surrounding blanks
BoolAlphabet == {"t", "T", "y", "n", "N", "f", "1", "0", "x", " "}

BoolWords ==
  TrueTokens \cup FalseTokens \cup
  {<<"m", "a", "y", "b", "e">>,
   <<"y", "e", "s", "s">>,
   <<"i", "n", " ", " ", "s", "t", "o", "c", "k">>,
   <<"t", "r", "u">>,
   <<"2">>,
   <<"u", "n", "k", "n", "o", "w", "n">>,
   <<"Y", "e", "s">>,
   <<"Y">>,
   <<"I", "n", " ", "S", "t", "o", "c", "k">>,
   <<"O", "O", "S">>,
   <<"T", "R", "U", "E">>,
   <<"N", "o">>,
   <<"F", "a", "l", "s", "e">>,
   <<"O", "u", "t", " ", "O", "f", " ", "S", "t", "o", "c", "k">>,
   <<"I", "n", "S", "t", "o", "c", "k">>,
   <<"N">>}

Pads == {<<>>, <<" ">>}

BoolTexts ==
  TextsUpTo(BoolAlphabet, MaxBoolLen)
    \cup {l \o w \o r : l \in Pads, w \in BoolWords, r \in Pads}

InitBoolean ==
  /\ arg \in {Str(s) : s \in BoolTexts} \cup {Null, Undefined}
  /\ ret = Undefined
  /\ pc = "call"
  /\ tzOffset = 0
  /\ legacyDate = NaN

ParseBooleanCall ==
  /\ pc = "call"
  /\ ret' = parseBoolean(arg)
  /\ pc' = "done"
  /\ UNCHANGED <<arg, tzOffset, legacyDate>>

SpecBoolean == InitBoolean /\ [][ParseBooleanCall]_vars


\* the environment: the local zone's offset from UTC in minutes, and what the
\* engine's own heuristics answer for text outside the standard format
TzOffsets == {-300, 0, 540}

LegacyDates == {NaN, Time(DaysFromCivil(2001, 1, 1), 0)}

YearTexts ==
  (TextsUpTo({"0", "9"}, 4) \ TextsUpTo({"0", "9"}, 3))
    \cup {<<"2", "0", "2", "4">>, <<"0", "0", "5", "0">>}

MonthTexts == {<<"0", "0">>, <<"0", "1">>, <<"0", "2">>, <<"1", "2">>, <<"1", "3">>}

DayTexts == {<<"0", "0">>, <<"0", "1">>, <<"2", "9">>, <<"3", "1">>, <<"3", "2">>}

ClockTexts ==
  {<<"T", "0", "0", ":", "0", "0">>, <<"T", "2", "3", ":", "5", "9">>,
   <<"T", "0", "0", ":", "0", "0", "Z">>, <<"T", "2", "3", ":", "5", "9", "Z">>,
   <<"T", "2", "5", ":", "0", "0">>}

ExpandedYearTexts ==
  {sg \o hi \o y : sg \in {<<"+">>, <<"-">>}, hi \in {<<"0", "0">>, <<"0", "1">>},
                  y \in {<<"0", "0", "0", "0">>, <<"0", "0", "5", "0">>,
                         <<"2", "0", "2", "4">>}}

DateCores ==
  LET ys == YearTexts \cup ExpandedYearTexts
      ym == {y \o <<"-">> \o m : y \in ys, m \in MonthTexts}
      ymd == {x \o <<"-">> \o d : x \in ym, d \in DayTexts}
      ymdt == {x \o c : x \in ymd, c \in ClockTexts}
  IN  ys \cup ym \cup ymd \cup ymdt
        \cup TextsUpTo({"0", "-", "/", "a", " "}, MaxDateLen)

DateTexts == {l \o w \o r : l \in Pads, w \in DateCores, r \in Pads}

InitDate ==
  /\ arg \in {Str(s) : s \in DateTexts} \cup {Null, Undefined}
  /\ ret = Undefined
  /\ pc = "call"
  /\ tzOffset \in TzOffsets
  /\ legacyDate \in LegacyDates

ParseDateCall ==
  /\ pc = "call"
  /\ ret' = parseDateISO(arg, tzOffset, legacyDate)
  /\ pc' = "done"
  /\ UNCHANGED <<arg, tzOffset, legacyDate>>

SpecDate == InitDate /\ [][ParseDateCall]_vars


\* raw records for cleanRow: with and without a review column, beside a
\* few values of the other columns
ReviewCells ==
  {Undefined, Str(<<>>), Str(<<" ">>), Str(<<"o", "k">>), Str(<<" ", "o", "k", " ">>)}

RatingCells ==
  {Str(<<>>), Str(<<"7">>), Str(<<"-", "1">>), Str(<<"4", ".", "5">>),
   Str(<<"a">>), Str(<<"$">>)}

RawRecords ==
  {LET base == (PRODUCT :> p) @@ (PRICE :> Str(<<"$", "1">>)) @@ (RATING :> r)
                 @@ (INSTOCK :> Str(<<"y">>)) @@ (LAUNCH_DATE :> d)
   IN  IF v = Undefined THEN base ELSE base @@ (REVIEW :> v) :
     p \in {Str(<<>>), Str(<<" ", "A">>)},
     r \in RatingCells,
     d \in {Str(<<>>), Str(<<"2", "0", "2", "4", "-", "0", "1">>)},
     v \in ReviewCells}

InitClean ==
  /\ arg \in RawRecords
  /\ ret = Undefined
  /\ pc = "call"
  /\ tzOffset \in TzOffsets
  /\ legacyDate = NaN

CleanRowCall ==
  /\ pc = "call"
  /\ ret' = cleanRow(arg, tzOffset, legacyDate)
  /\ pc' = "done"
  /\ UNCHANGED <<arg, tzOffset, legacyDate>>

SpecClean == InitClean /\ [][CleanRowCall]_vars


\* cleaned rows for computeAnalytics.  Prices and ratings are multiples of
\* one half, which binary floating point adds exactly in any order.
Half == Scale \div 2

CleanedRow(p, pr, ra, ins, d) ==
  [product |-> p, price |-> pr, rating |-> ra, instock |-> ins, review |-> Null,
   launch_date |-> d]

JAN == Str(<<"2", "0", "2", "4", "-", "0", "1", "-", "0", "5">>)

JAN2 == Str(<<"2", "0", "2", "4", "-", "0", "1", "-", "3", "0">>)

FEB == Str(<<"2", "0", "2", "4", "-", "0", "2", "-", "0", "1">>)

DEC == Str(<<"2", "0", "2", "3", "-", "1", "2", "-", "3", "1">>)

AggRows ==
  {CleanedRow(Str(<<"A">>), Num(20 * Half), Num(10 * Half), Bool(TRUE), FEB),
   CleanedRow(Str(<<"A">>), Num(3 * Half), Null, Bool(FALSE), JAN),
   CleanedRow(Str(<<"B">>), Null, Num(9 * Half), Null, JAN2),
   CleanedRow(Null, Num(0 - 7 * Half), Num(0), Bool(TRUE), Null),
   CleanedRow(Str(<<"B">>), Null, Null, Bool(FALSE), FEB),
   CleanedRow(Null, Num(8 * Half), Num(3 * Half), Null, DEC),
   CleanedRow(Str(UNKNOWN), Null, Null, Null, Null),
   CleanedRow(Null, Null, Null, Bool(TRUE), JAN)}

\* every sequence of at most n elements of S
RECURSIVE SeqsUpTo(_, _)
SeqsUpTo(S, n) ==
  IF n = 0 THEN {<<>>}
  ELSE LET shorter == SeqsUpTo(S, n - 1)
       IN  shorter \cup {Append(s, x) : s \in shorter, x \in S}

InitAnalytics ==
  /\ arg \in SeqsUpTo(AggRows, MaxAggRows)
  /\ ret = Undefined
  /\ pc = "call"
  /\ tzOffset = 0
  /\ legacyDate = NaN

ComputeAnalyticsCall ==
  /\ pc = "call"
  /\ ret' = computeAnalytics(arg)
  /\ pc' = "done"
  /\ UNCHANGED <<arg, tzOffset, legacyDate>>

SpecAnalytics == InitAnalytics /\ [][ComputeAnalyticsCall]_vars


\* rows for the product ranking: TopN rows with distinct products, of which
\* a prefix is taken, with free rows before and after it
ProductRow(p) == CleanedRow(p, Null, Null, Bool(TRUE), Null)

DistinctRows == [i \in 1..TopN |-> ProductRow(Str(<<"P", DigitChar(i - 1)>>))]

TopRows ==
  {ProductRow(p) :
     p \in {Str(<<"P", "0">>), Str(<<"P", "9">>), Str(<<"Q">>), Str(<<"R">>),
            Str(UNKNOWN), Null}}

\* at most MaxTopFree free rows in all, before and after the distinct ones
TopInputs ==
  UNION {{pre \o SubSeq(DistinctRows, 1, k) \o post :
            k \in 0..TopN,
            post \in SeqsUpTo(TopRows, MaxTopFree - Len(pre))} :
           pre \in SeqsUpTo(TopRows, MaxTopFree)}

InitTop ==
  /\ arg \in TopInputs
  /\ ret = Undefined
  /\ pc = "call"
  /\ tzOffset = 0
  /\ legacyDate = NaN

SpecTop == InitTop /\ [][ComputeAnalyticsCall]_vars

\* uploaded files, already split into cells.  The header row takes its
\* columns (spelled as files spell them) in file order or reversed; each
\* data line is one of a few kinds of row, or a line one cell short.
HeaderCells ==
  <<<<"P", "r", "o", "d", "u", "c", "t">>,
    <<"p", "r", "i", "c", "e", " ">>,
    <<"R", "A", "T", "I", "N", "G">>,
    <<"i", "n", "s", "t", "o", "c", "k">>,
    <<"L", "a", "u", "n", "c", "h", "_", "D", "a", "t", "e">>,
    <<"r", "e", "v", "i", "e", "w">>,
    <<"n", "o", "t", "e", "s">>>>

HeaderRows ==
  LET n == Len(HeaderCells)
      Pick(S) == SelectSeq([i \in 1..n |-> i], LAMBDA i : i \in S)
      InOrder(S) == [j \in 1..Len(Pick(S)) |-> HeaderCells[Pick(S)[j]]]
      Reversed(S) == [j \in 1..Len(Pick(S)) |-> HeaderCells[Pick(S)[Len(Pick(S)) + 1 - j]]]
      Sets == {S \in SUBSET (1..n) : Cardinality(S) >= n - 2 \/ S = {1, 2}}
  IN  {InOrder(S) : S \in Sets} \cup {Reversed(S) : S \in Sets}

Cells(p, pr, ra, ins, d, rv) ==
  (PRODUCT :> p) @@ (PRICE :> pr) @@ (RATING :> ra) @@ (INSTOCK :> ins)
    @@ (LAUNCH_DATE :> d) @@ (REVIEW :> rv) @@ (<<"n", "o", "t", "e", "s">> :> <<"x">>)

RowKinds ==
  {[short |-> FALSE,
    cells |-> Cells(<<"A">>, <<"$", "5">>, <<"7">>, <<"Y", "e", "s">>, FEB.s, <<"o", "k">>)],
   [short |-> FALSE, cells |-> Cells(<<>>, <<>>, <<>>, <<>>, <<>>, <<>>)],
   [short |-> FALSE,
    cells |-> Cells(<<>>, <<>>, <<>>, <<"m", "a", "y", "b", "e">>, <<>>, <<>>)],
   [short |-> FALSE, cells |-> Cells(<<>>, <<>>, <<>>, <<>>, <<>>, <<"o", "k">>)],
   [short |-> FALSE,
    cells |-> Cells(<<" ", "B">>, <<>>, <<"1", ".", "5">>, <<"0">>, JAN.s, <<" ">>)],
   [short |-> FALSE, cells |-> Cells(<<>>, <<"$">>, <<>>, <<>>, <<>>, <<>>)],
   [short |-> FALSE,
    cells |-> Cells(<<"A">>, <<"a">>, <<"-", "1">>, <<"n", "o">>,
                    <<"2", "0", "2", "4", "-", "0", "1">>, <<>>)],
   [short |-> TRUE, cells |-> Cells(<<"A">>, <<>>, <<>>, <<>>, <<>>, <<>>)]}

LineOf(header, kind) ==
  LET n == IF kind.short THEN Len(header) - 1 ELSE Len(header)
  IN  [i \in 1..n |-> kind.cells[normalizeHeader(header[i])]]

FileNames ==
  {<<"a", ".", "c", "s", "v">>, <<"A", ".", "C", "S", "V">>, <<"a", ".", "t", "x", "t">>}

Files ==
  {[originalname |-> nm,
    header |-> h,
    lines |-> [i \in 1..Len(ks) |-> LineOf(h, ks[i])]] :
     nm \in FileNames, h \in HeaderRows, ks \in SeqsUpTo(RowKinds, MaxRows)}

Init ==
  /\ arg \in Files \cup {Undefined}
  /\ ret = Undefined
  /\ pc = "call"
  /\ tzOffset \in TzOffsets
  /\ legacyDate = NaN

UploadCall ==
  /\ pc = "call"
  /\ ret' = Upload(arg, tzOffset, legacyDate)
  /\ pc' = "done"
  /\ UNCHANGED <<arg, tzOffset, legacyDate>>

Next == UploadCall

Spec == Init /\ [][Next]_vars


\* files whose rating cells range over every short text: one data line, or
\* two with the second rating from a few fixed texts
RatingHeader ==
  <<PRODUCT, PRICE, RATING, INSTOCK, LAUNCH_DATE>>

RatingLine(r) == <<<<"A">>, <<>>, r, <<>>, <<>>>>

InitRating ==
  /\ arg \in {[originalname |-> <<"a", ".", "c", "s", "v">>,
               header |-> RatingHeader,
               lines |-> ls] :
                ls \in {<<RatingLine(r)>> : r \in TextsUpTo(NumAlphabet, MaxRatingLen)}
                  \cup {<<RatingLine(r), RatingLine(q)>> :
                          r \in TextsUpTo(NumAlphabet, MaxRatingLen),
                          q \in {<<>>, <<"7">>, <<"-", "1">>, <<"1", ".", "7">>}}}
  /\ ret = Undefined
  /\ pc = "call"
  /\ tzOffset = 0
  /\ legacyDate = NaN

SpecRating == InitRating /\ [][UploadCall]_vars

(* ------------------------------- claims -------------------------------- *)

Done == pc = "done"

\* the request carried a file named *.csv whose lines all parse
Parsed ==
  /\ arg # Undefined
  /\ EndsWith(ToLowerCase(arg.originalname), DOT_CSV)
  /\ \A n \in 1..Len(arg.lines) : Len(arg.lines[n]) = Len(arg.header)

\* the required columns absent from the header row, trimmed and lower-cased
AbsentRequired ==
  SelectSeq(REQUIRED_COLUMNS,
            LAMBDA c : \A i \in 1..Len(arg.header) : normalizeHeader(arg.header[i]) # c)

\* C1: a schema error (422) is surfaced exactly when a required column is
\* absent from the header row, whatever the column order and however many
\* data rows follow (zero included); its missing list is exactly the absent
\* required columns, and no analytics or sample rows come with it.
C1_SchemaErrorIffColumnAbsent ==
  (Done /\ Parsed) =>
    /\ (ret.status = 422) <=> (AbsentRequired # <<>>)
    /\ ret.status = 422 =>
         /\ ret.details.missing = AbsentRequired
         /\ "analytics" \notin DOMAIN ret
         /\ "sampleCleanedRows" \notin DOMAIN ret
    /\ ret.status # 422 => ret.status = 200

\* the part of C1 the handler does meet: with at least one data row
C1_HoldsWithADataRow ==
  (Done /\ Parsed /\ Len(arg.lines) > 0) => C1_SchemaErrorIffColumnAbsent

\* the token of a raw boolean text: trimmed and lower-cased
BoolToken == ToLowerCase(Trim(arg.s))

\* C2 (as stated): the boolean normalizer has four outcomes: null for absent
\* or empty text, true and false for the two token sets, and for every other
\* non-empty token a value `unknown` that is not null.
C2_FourOutcomes ==
  (Done /\ arg.t = "str") =>
    /\ BoolToken = <<>> => ret = Null
    /\ BoolToken \in TrueTokens => ret = Bool(TRUE)
    /\ BoolToken \in FalseTokens => ret = Bool(FALSE)
    /\ (BoolToken # <<>> /\ BoolToken \notin TrueTokens \cup FalseTokens) =>
         ret \notin {Null, Bool(TRUE), Bool(FALSE)}

\* C2 (amended): the boolean normalizer has three outcomes: true and false
\* for the two token sets after trimming and lower-casing, and null for
\* everything else: absent, empty, and every unrecognized token alike.
C2_ThreeOutcomes ==
  Done =>
    /\ arg.t # "str" => ret = Null
    /\ arg.t = "str" =>
         /\ BoolToken \in TrueTokens => ret = Bool(TRUE)
         /\ BoolToken \in FalseTokens => ret = Bool(FALSE)
         /\ BoolToken \notin TrueTokens \cup FalseTokens => ret = Null

\* an unrecognized non-empty token went to null
C2_Witness ==
  /\ Done
  /\ arg = Str(<<" ", "m", "a", "y", "b", "e">>)
  /\ ret = Null


\* the records of the uploaded file and their cleaned rows
InputRecords == ParseCsv(arg).records

CleanedInput ==
  [n \in 1..Len(InputRecords) |-> cleanRow(InputRecords[n], tzOffset, legacyDate)]

\* some tracked field of a cleaned row is not null
HasTrackedValue(r) ==
  \/ r.product # Null
  \/ r.price # Null
  \/ r.rating # Null
  \/ r.instock # Null
  \/ r.launch_date # Null

\* the raw instock cell of a record holds a token outside both token sets
UnrecognizedInstock(rec) ==
  LET s == ToLowerCase(Trim(rec[INSTOCK].s))
  IN  s # <<>> /\ s \notin TrueTokens \cup FalseTokens

\* a record whose only non-empty cell among the tracked columns is an
\* unrecognized instock token
OnlyUnrecognizedInstock(rec) ==
  /\ UnrecognizedInstock(rec)
  /\ \A k \in {PRODUCT, PRICE, RATING, LAUNCH_DATE} : Trim(rec[k].s) = <<>>

\* a record whose only non-empty cell is its review
OnlyReview(rec) ==
  /\ REVIEW \in DOMAIN rec /\ Trim(rec[REVIEW].s) # <<>>
  /\ \A k \in {PRODUCT, PRICE, RATING, INSTOCK, LAUNCH_DATE} : Trim(rec[k].s) = <<>>

CountOf(S) == Cardinality(S)

\* C3 (as stated): a row is dropped iff its five tracked fields are all
\* null, where an unrecognized instock token is a value (unknown), not null:
\* totalRows counts every record with a tracked value or such a token, so a
\* row holding only an unrecognized instock token is kept and counted.
C3_UnknownInstockRowKept ==
  (Done /\ ret.status = 200) =>
    ret.analytics.totalRows =
      CountOf({n \in 1..Len(InputRecords) :
                 HasTrackedValue(CleanedInput[n]) \/ UnrecognizedInstock(InputRecords[n])})

\* C3 (amended): a row is dropped iff product, price, rating, instock and
\* launch_date are all null; an unrecognized instock token cleans to null, so
\* a row holding only such a token is dropped like a row holding only a
\* review.  totalRows is the number of records with a non-null tracked
\* field, the instock buckets count only those, and sampleCleanedRows is
\* the first SampleN of them in file order.
C3_RowDroppedIffAllTrackedNull ==
  (Done /\ ret.status = 200) =>
    LET kept == SelectSeq(CleanedInput, HasTrackedValue)
        a == ret.analytics
    IN  /\ a.totalRows = Len(kept)
        /\ a.totalRows =
             CountOf({n \in 1..Len(InputRecords) :
                        /\ ~OnlyUnrecognizedInstock(InputRecords[n])
                        /\ HasTrackedValue(CleanedInput[n])})
        /\ \A n \in 1..Len(InputRecords) :
             (OnlyUnrecognizedInstock(InputRecords[n]) \/ OnlyReview(InputRecords[n]))
               => ~HasTrackedValue(CleanedInput[n])
        /\ a.instockCounts.true + a.instockCounts.false + a.instockCounts.null
             = Len(kept)
        /\ ret.sampleCleanedRows = Slice(kept, SampleN)

\* a file was answered whose two rows are one holding only an unrecognized
\* instock token, which was dropped, and one that was kept
C3_Witness ==
  /\ Done /\ ret.status = 200
  /\ Len(InputRecords) = 2
  /\ OnlyUnrecognizedInstock(InputRecords[1])
  /\ HasTrackedValue(CleanedInput[2])
  /\ ret.analytics.totalRows = 1
  /\ Len(ret.sampleCleanedRows) = 1

\* the texts of a raw numeric value
NumTrimmed == Trim(arg.s)

NumRemainder == StripCurrency(NumTrimmed)

HasNumeral(s) == \E i \in 1..Len(s) : s[i] \in Digits

\* C4: the numeric normalizer returns null when the trimmed text is empty,
\* null when the remainder left after stripping currency signs and commas
\* is empty or does not parse as a finite number, and otherwise the parsed
\* number; it never returns a number for text without a numeral.
C4_NumericNormalizer ==
  (Done /\ arg.t = "str") =>
    /\ NumTrimmed = <<>> => ret = Null
    /\ Trim(NumRemainder) = <<>> => ret = Null
    /\ ~HasNumeral(arg.s) => ret = Null
    /\ ToNumber(NumRemainder) = NaN => ret = Null
    /\ (Trim(NumRemainder) # <<>> /\ ToNumber(NumRemainder) # NaN)
         => ret = ToNumber(NumRemainder)

\* the part of C4 the normalizer does meet: text with a numeral left after
\* the stripping, or none parsing at all
C4_HoldsWithANumeral ==
  (Done /\ arg.t = "str" /\ Trim(NumRemainder) # <<>>) => C4_NumericNormalizer

\* the rating text of data line n of the uploaded file
RatingText(n) == arg.lines[n][3]

InRange(v) == v = Null \/ (v.t = "num" /\ 0 <= v.n /\ v.n <= 5 * Scale)

\* C5: the rating of every cleaned row is null or within [0, 5]: the
\* normalized value below 0 becomes 0, above 5 becomes 5, within [0, 5] is
\* unchanged, and null stays null; so stats.rating.min and stats.rating.max
\* are within [0, 5] when not null.
C5_RatingWithinRange ==
  (Done /\ ret.status = 200) =>
    /\ Len(ret.sampleCleanedRows) = Len(arg.lines)
    /\ \A n \in 1..Len(arg.lines) :
         LET raw == parseNumber(Str(RatingText(n)))
             r == ret.sampleCleanedRows[n].rating
         IN  /\ InRange(r)
             /\ raw = Null => r = Null
             /\ (raw # Null /\ raw.n < 0) => r = Num(0)
             /\ (raw # Null /\ raw.n > 5 * Scale) => r = Num(5 * Scale)
             /\ (raw # Null /\ raw.n >= 0 /\ raw.n <= 5 * Scale) => r = raw
    /\ InRange(ret.analytics.stats.rating.min)
    /\ InRange(ret.analytics.stats.rating.max)

\* one file with a rating above 5 and a rating below 0, both clamped
C5_Witness ==
  /\ Done /\ ret.status = 200
  /\ Len(arg.lines) = 2
  /\ RatingText(1) = <<"7", ".", "1">>
  /\ RatingText(2) = <<"-", "1">>
  /\ ret.analytics.stats.rating.max = Num(5 * Scale)
  /\ ret.analytics.stats.rating.min = Num(0)

\* a text of the form YYYY-MM-DD
IsCanonicalDate(s) ==
  /\ Len(s) = 10
  /\ \A i \in {1, 2, 3, 4, 6, 7, 9, 10} : s[i] \in Digits
  /\ s[5] = "-" /\ s[8] = "-"

\* C6: the date normalizer returns null or a text of exactly the form
\* YYYY-MM-DD, on the exact-match path and on the permissive-parse path
\* alike, so the 7-character month key has the form YYYY-MM.
C6_CanonicalDateOrNull ==
  Done => (ret = Null \/ (ret.t = "str" /\ IsCanonicalDate(ret.s)))

\* the part of C6 the normalizer does meet: years of four digits
C6_HoldsOnExactMatch ==
  (Done /\ arg.t = "str" /\ IsoMatch(Trim(arg.s))) => C6_CanonicalDateOrNull

\* C7: review follows the trim-string rule: with a review column the
\* trimmed text if non-empty and null if absent, empty or blank; without the
\* column null.  A cleaned row's review is never the empty string.
C7_ReviewTrimString ==
  Done =>
    /\ REVIEW \notin DOMAIN arg => ret.review = Null
    /\ REVIEW \in DOMAIN arg =>
         ret.review = (IF Trim(arg[REVIEW].s) = <<>> THEN Null
                       ELSE Str(Trim(arg[REVIEW].s)))
    /\ ret.review # Str(<<>>)

\* the part of C7 the cleaner does meet: a review that is not blank, or no
\* review column
C7_HoldsUnlessBlank ==
  (Done /\ (REVIEW \in DOMAIN arg => Trim(arg[REVIEW].s) # <<>>))
    => C7_ReviewTrimString


\* the label a row is counted under, and how many rows carry a label
LabelOf(r) == IF r.product = Null THEN UNKNOWN ELSE r.product.s

Labels == {LabelOf(arg[i]) : i \in 1..Len(arg)}

RowsLabelled(l) == CountOf({i \in 1..Len(arg) : LabelOf(arg[i]) = l})

Listed == {ret.topProducts[i].product : i \in 1..Len(ret.topProducts)}

\* C8: topProducts has at most 10 entries, with pairwise distinct labels and
\* non-increasing counts; each count is the number of rows carrying that
\* product, null products counted under "Unknown"; and no product left out
\* has a count strictly greater than a listed one.
C8_TopProducts ==
  Done =>
    LET tp == ret.topProducts
    IN  /\ Len(tp) <= 10
        /\ \A i, j \in 1..Len(tp) : i # j => tp[i].product # tp[j].product
        /\ \A i \in 1..(Len(tp) - 1) : tp[i].count >= tp[i + 1].count
        /\ \A i \in 1..Len(tp) :
             /\ tp[i].product \in Labels
             /\ tp[i].count = RowsLabelled(tp[i].product)
        /\ \A l \in Labels \ Listed :
             \A i \in 1..Len(tp) : RowsLabelled(l) <= tp[i].count
        /\ (Labels # {}) => Len(tp) > 0

\* more than ten labels, null products among the rows, counts that differ
\* within the list, and a label first seen early left out for a later one
C8_Witness ==
  /\ Done
  /\ Cardinality(Labels) > 10
  /\ Len(ret.topProducts) = 10
  /\ \E i \in 1..Len(arg) : arg[i].product = Null
  /\ UNKNOWN \in Listed
  /\ ret.topProducts[1].count > ret.topProducts[10].count
  /\ \E i, j \in 1..Len(arg) :
       /\ i < j
       /\ LabelOf(arg[i]) \notin Listed
       /\ LabelOf(arg[j]) \in Listed

\* every reordering of a sequence
Reorderings(s) ==
  {[i \in 1..Len(s) |-> s[f[i]]] :
     f \in {g \in [1..Len(s) -> 1..Len(s)] :
              \A i, j \in 1..Len(s) : i # j => g[i] # g[j]}}

\* the month key of a dated row, and the rows of a month
MonthKey(r) == SubSeq(r.launch_date.s, 1, 7)

Dated == {i \in 1..Len(arg) : arg[i].launch_date # Null}

MonthKeys == {MonthKey(arg[i]) : i \in Dated}

InMonth(k) == {i \in Dated : MonthKey(arg[i]) = k}

RECURSIVE SumField(_, _)
SumField(rows, fld) ==
  IF rows = <<>> THEN 0 ELSE Head(rows)[fld].n + SumField(Tail(rows), fld)

\* the mean of field fld over the rows of month k that have it: sum / number
MeanOf(k, fld) ==
  LET have == SelectSeq(arg, LAMBDA r : /\ r.launch_date # Null
                                        /\ MonthKey(r) = k
                                        /\ r[fld] # Null)
  IN  IF have = <<>> THEN Null
      ELSE Quotient(SumField(have, fld), Len(have))

\* lexicographic order by code unit: "-" sorts before every digit
RECURSIVE LexLess(_, _)
LexLess(a, b) ==
  IF b = <<>> THEN FALSE
  ELSE IF a = <<>> THEN TRUE
  ELSE IF Head(a) = Head(b) THEN LexLess(Tail(a), Tail(b))
  ELSE IF Head(a) = "-" THEN TRUE
  ELSE IF Head(b) = "-" THEN FALSE
  ELSE DigitVal(Head(a)) < DigitVal(Head(b))

RECURSIVE SumCounts(_)
SumCounts(m) == IF m = <<>> THEN 0 ELSE Head(m).count + SumCounts(Tail(m))

AllNull(st) == st.min = Null /\ st.max = Null /\ st.mean = Null

NoneNull(st) == st.min # Null /\ st.max # Null /\ st.mean # Null

\* C10: the counters agree with totalRows: the three instock buckets sum to
\* it; the monthly counts sum to totalRows - missing.launch_date; the price
\* and rating stats count totalRows - missing.price and totalRows -
\* missing.rating; and a stats block has min, max and mean null exactly when
\* its count is 0.
C10_CountersConsistent ==
  Done =>
    LET a == ret
    IN  /\ a.totalRows = Len(arg)
        /\ a.instockCounts.true + a.instockCounts.false + a.instockCounts.null
             = a.totalRows
        /\ SumCounts(a.monthly) = a.totalRows - a.missing.launch_date
        /\ a.stats.price.count = a.totalRows - a.missing.price
        /\ a.stats.rating.count = a.totalRows - a.missing.rating
        /\ \A st \in {a.stats.price, a.stats.rating} :
             /\ st.count = 0 => AllNull(st)
             /\ st.count # 0 => NoneNull(st)

\* three rows, one undated, none priced, some rated
C10_Witness ==
  /\ Done
  /\ ret.totalRows = 3
  /\ ret.missing.launch_date = 1
  /\ SumCounts(ret.monthly) = 2
  /\ ret.stats.price.count = 0
  /\ ret.stats.rating.count = 1
  /\ ret.instockCounts.null > 0

=============================================================================
